---- MODULE Spec2Model ----
(***************************************************************************)
(* State-machine model of geo_gpt.geocoder.GeoCoder: the country           *)
(* normalizer, the deterministic (pgeocode) resolver, the LLM fallback,    *)
(* the geocode orchestrator and the distance / radius operations.          *)
(*                                                                         *)
(* One GeoCoder object is modelled.  A public call starts from pc = "idle" *)
(* with an action that binds the arguments; every later action of the call *)
(* is the block of source lines around one collaborator call (pgeocode,    *)
(* the LLM client), with the collaborator's response chosen by \E.  While  *)
(* a call runs only its own continuation is enabled, so the sequence of    *)
(* actions of a call is exactly the sequential execution of the method;    *)
(* the call has returned or raised when pc = "done".                       *)
(*                                                                         *)
(* Python str values are sequences of one-character strings, so that       *)
(* len(), upper(), lower(), strip(), split(), str.contains and             *)
(* concatenation are computed rather than assumed.  Optional values        *)
(* (None, NaN) are the empty tuple, a present value x is <<x>>.  Floats    *)
(* are integers: coordinates in 1e-4 degree, distances in km.              *)
(***************************************************************************)
EXTENDS Integers, Sequences, FiniteSets, TLC

\* ------------------------------------------------------------------ text
s_empty == <<>>
s_us == <<"u","s">>
s_US == <<"U","S">>
s_USA == <<"U","S","A">>
s_United_States == <<"U","n","i","t","e","d"," ","S","t","a","t","e","s">>
s_CA == <<"C","A">>
s_CAN == <<"C","A","N">>
s_Canada == <<"C","a","n","a","d","a">>
s_MX == <<"M","X">>
s_MEX == <<"M","E","X">>
s_Mexico == <<"M","e","x","i","c","o">>
s_ZZ == <<"Z","Z">>
s_XYZ == <<"X","Y","Z">>
s_Atlantis == <<"A","t","l","a","n","t","i","s">>
s_America == <<"A","m","e","r","i","c","a">>
s_nan == <<"n","a","n">>
s_Unknown == <<"U","n","k","n","o","w","n">>
s_UNK == <<"U","N","K">>
s_LLM == <<"[","L","L","M","]">>
s_sp_LLM == <<" ","[","L","L","M","]">>
s_LLM_Error == <<"[","L","L","M"," ","E","r","r","o","r","]">>
s_comma_sp == <<","," ">>
s_Beverly_Hills == <<"B","e","v","e","r","l","y"," ","H","i","l","l","s">>
s_Springfield == <<"S","p","r","i","n","g","f","i","e","l","d">>
s_Paris_Lamar == <<"P","a","r","i","s",","," ","L","a","m","a","r">>
s_California == <<"C","a","l","i","f","o","r","n","i","a">>
s_Illinois == <<"I","l","l","i","n","o","i","s">>
s_Missouri == <<"M","i","s","s","o","u","r","i">>
s_Texas == <<"T","e","x","a","s">>
s_missouri == <<"m","i","s","s","o","u","r","i">>
s_misso_ri == <<"m","i","s","s","o",".","r","i">>
s_IL == <<"I","L">>
s_MO == <<"M","O">>
s_TX == <<"T","X">>
s_90210 == <<"9","0","2","1","0">>
s_75460 == <<"7","5","4","6","0">>
s_55501 == <<"5","5","5","0","1">>
s_Mankato == <<"M","a","n","k","a","t","o">>
s_Minnesota == <<"M","i","n","n","e","s","o","t","a">>
s_MN == <<"M","N">>
s_Carlson_Craft == <<"C","a","r","l","s","o","n"," ","C","r","a","f","t">>
s_Carlson_addr == <<"C","a","r","l","s","o","n"," ","C","r","a","f","t",","," ","M","a","n","k","a","t","o",","," ","M","N",","," ","U","S","A">>
s_NY == <<"N","Y">>
s_New_York == <<"N","e","w"," ","Y","o","r","k">>
s_10001 == <<"1","0","0","0","1">>

mapping ==
  << <<<<"U","S","A">>, <<"U","S">>>>,
     <<<<"C","A","N">>, <<"C","A">>>>,
     <<<<"G","B","R">>, <<"G","B">>>>,
     <<<<"F","R","A">>, <<"F","R">>>>,
     <<<<"D","E","U">>, <<"D","E">>>>,
     <<<<"J","P","N">>, <<"J","P">>>>,
     <<<<"C","H","N">>, <<"C","N">>>>,
     <<<<"A","U","S">>, <<"A","U">>>>,
     <<<<"N","Z","L">>, <<"N","Z">>>>,
     <<<<"R","U","S">>, <<"R","U">>>> >>

common_countries ==
  << <<<<"u","n","i","t","e","d"," ","s","t","a","t","e","s">>, <<"U","S">>>>,
     <<<<"u","s","a">>, <<"U","S">>>>,
     <<<<"a","m","e","r","i","c","a">>, <<"U","S">>>>,
     <<<<"c","a","n","a","d","a">>, <<"C","A">>>>,
     <<<<"u","n","i","t","e","d"," ","k","i","n","g","d","o","m">>, <<"G","B">>>>,
     <<<<"u","k">>, <<"G","B">>>>,
     <<<<"f","r","a","n","c","e">>, <<"F","R">>>>,
     <<<<"g","e","r","m","a","n","y">>, <<"D","E">>>>,
     <<<<"j","a","p","a","n">>, <<"J","P">>>>,
     <<<<"c","h","i","n","a">>, <<"C","N">>>>,
     <<<<"a","u","s","t","r","a","l","i","a">>, <<"A","U">>>>,
     <<<<"n","e","w"," ","z","e","a","l","a","n","d">>, <<"N","Z">>>>,
     <<<<"r","u","s","s","i","a">>, <<"R","U">>>>,
     <<<<"m","e","x","i","c","o">>, <<"M","X">>>>,
     <<<<"b","r","a","z","i","l">>, <<"B","R">>>>,
     <<<<"i","n","d","i","a">>, <<"I","N">>>>,
     <<<<"s","p","a","i","n">>, <<"E","S">>>>,
     <<<<"i","t","a","l","y">>, <<"I","T">>>> >>

LowerLetters == <<"a","b","c","d","e","f","g","h","i","j","k","l","m","n","o","p","q","r","s","t","u","v","w","x","y","z">>
UpperLetters == <<"A","B","C","D","E","F","G","H","I","J","K","L","M","N","O","P","Q","R","S","T","U","V","W","X","Y","Z">>
Digits == <<"0","1","2","3","4","5","6","7","8","9">>

\* ------------------------------------------------------------ str methods
None == <<>>
Some(x) == <<x>>
IsNone(o) == Len(o) = 0
NotNone(o) == Len(o) > 0
Val(o) == o[1]

SetMin(S) == CHOOSE x \in S : \A y \in S : x <= y

UpperChar(c) ==
  IF \E i \in 1..Len(LowerLetters) : LowerLetters[i] = c
  THEN UpperLetters[CHOOSE i \in 1..Len(LowerLetters) : LowerLetters[i] = c]
  ELSE c

LowerChar(c) ==
  IF \E i \in 1..Len(UpperLetters) : UpperLetters[i] = c
  THEN LowerLetters[CHOOSE i \in 1..Len(UpperLetters) : UpperLetters[i] = c]
  ELSE c

Upper(s) == [i \in 1..Len(s) |-> UpperChar(s[i])]
Lower(s) == [i \in 1..Len(s) |-> LowerChar(s[i])]

\* str.strip(): leading and trailing blanks removed
Strip(s) ==
  LET keep == {i \in 1..Len(s) : s[i] # " "}
  IN  IF keep = {} THEN <<>>
      ELSE SubSeq(s, SetMin(keep), CHOOSE j \in keep : \A k \in keep : k <= j)

\* SplitFirst with the text left whole
SplitFirst_whole(s, sep) == s

\* s.split(sep)[0]: the text before the first separator
SplitFirst(s, sep) ==
  LET at == {i \in 1..Len(s) : s[i] = sep}
  IN  IF at = {} THEN s ELSE SubSeq(s, 1, SetMin(at) - 1)

\* pandas str.contains(pat) for one value: pat is a regular expression
\* (regex=True is the default) searched anywhere in the value; of the
\* metacharacters only "." (any one character) is modelled
Contains(hay, pat) ==
  \E i \in 0..(Len(hay) - Len(pat)) :
     \A k \in 1..Len(pat) : pat[k] = "." \/ pat[k] = hay[i + k]

RECURSIVE Join(_, _)
Join(parts, sep) ==
  IF Len(parts) = 0 THEN <<>>
  ELSE IF Len(parts) = 1 THEN parts[1]
  ELSE parts[1] \o sep \o Join(Tail(parts), sep)

\* dict.get(key, default) on a table of <<key, value>> pairs
DictGet(table, key, default) ==
  IF \E i \in 1..Len(table) : table[i][1] = key
  THEN table[CHOOSE i \in 1..Len(table) : table[i][1] = key][2]
  ELSE default

\* f"{i:05d}" for 0 <= i < 100000
Fmt05d(i) ==
  << Digits[((i \div 10000) % 10) + 1], Digits[((i \div 1000) % 10) + 1],
     Digits[((i \div 100) % 10) + 1], Digits[((i \div 10) % 10) + 1],
     Digits[(i % 10) + 1] >>

\* --------------------------------------------------------------- pycountry
\* The country catalogue of the pycountry package (a sample of its rows).
pycountry_countries ==
  { [alpha_2 |-> s_US, alpha_3 |-> s_USA, name |-> s_United_States],
    [alpha_2 |-> s_CA, alpha_3 |-> s_CAN, name |-> s_Canada],
    [alpha_2 |-> s_MX, alpha_3 |-> s_MEX, name |-> s_Mexico] }

\* pycountry.countries.get(field=value): case-insensitive, None when unknown
pycountry_get(field, value) ==
  LET hits == {c \in pycountry_countries : Lower(c[field]) = Lower(value)}
  IN  IF hits = {} THEN None ELSE Some(CHOOSE c \in hits : TRUE)

\* pycountry.countries.search_fuzzy(query): the matching countries, best first;
\* raises LookupError when nothing matches
search_fuzzy(query) ==
  LET hits == {c \in pycountry_countries : Lower(c.name) = Lower(query)}
  IN  IF hits = {} THEN [raised |-> TRUE, results |-> <<>>]
      ELSE [raised |-> FALSE, results |-> <<CHOOSE c \in hits : TRUE>>]

\* ------------------------------------------------------------------ state
VARIABLES
  pycountry_installed,  \* whether "import pycountry" succeeds in this process
  llm_provider,         \* self.llm_provider
  nominatim_cache,      \* self._nominatim_cache: country code -> handle
  geodistance_cache,    \* self._geodistance_cache: country code -> handle
  llm,                  \* self._llm: None or <<client>>
  pc,                   \* position of the running call; "idle" / "done" between calls
  call,                 \* the running (or last) call: operation and arguments
  frame,                \* local variables of the running (or last) call
  trace,                \* collaborator calls issued by the running (or last) call, in order
  outcome,              \* how the last call ended: returned value or raised exception
  printed               \* what the nearby command printed: None, or <<[limit, locations]>>

vars == << pycountry_installed, llm_provider, nominatim_cache, geodistance_cache,
           llm, pc, call, frame, trace, outcome, printed >>

Running == [kind |-> "running", value |-> None]
Return(v) == [kind |-> "return", value |-> v]
Raise(e) == [kind |-> "raise", value |-> e]

\* models.GeoLocation
GeoLocation(country, country_full, postal_code, city, state_full, state_code, latitude, longitude, accuracy, formatted_address) ==
  [ country |-> country, country_full |-> country_full, postal_code |-> postal_code,
    city |-> city, state_full |-> state_full, state_code |-> state_code,
    latitude |-> latitude, longitude |-> longitude, accuracy |-> accuracy,
    formatted_address |-> formatted_address ]

\* the "[LLM Error]" record of _geocode_with_llm
LlmErrorSentinel ==
  GeoLocation(s_UNK, s_Unknown, s_empty, s_empty, None, None, 0, 0, "low",
              Some(s_LLM_Error))

\* the last-resort record of geocode
EmptySentinel ==
  GeoLocation(s_UNK, s_Unknown, s_empty, s_empty, None, None, 0, 0, "low", None)

\* -------------------------------------------------------- country normalizer
iso3_to_iso2_country(iso3_code) ==
  IF pycountry_installed
  THEN LET country == pycountry_get("alpha_3", Upper(iso3_code))
       IN  IF NotNone(country) THEN Val(country).alpha_2 ELSE iso3_code
  ELSE DictGet(mapping, Upper(iso3_code),
               SubSeq(iso3_code, 1, IF Len(iso3_code) < 2 THEN Len(iso3_code) ELSE 2))

normalize_country_code(country) ==
  IF Len(country) = 0 THEN None
  ELSE IF Len(country) = 2 THEN Some(Upper(country))
  ELSE IF Len(country) = 3 THEN Some(iso3_to_iso2_country(country))
  ELSE IF pycountry_installed /\ ~search_fuzzy(country).raised
       THEN LET results == search_fuzzy(country).results
            IN  IF Len(results) > 0 THEN Some(results[1].alpha_2) ELSE None
       ELSE LET hit == DictGet(common_countries, Lower(country), None)
            IN  IF Len(hit) = 0 THEN None ELSE Some(hit)

\* Python truthiness of an Optional[str]
Truthy(o) == NotNone(o) /\ Len(Val(o)) > 0

\* ------------------------------------------------------ pgeocode data rows
\* A pandas Series returned by pgeocode; NaN fields are None.  "first" names the
\* column at position 0 (postal_code for query_postal_code, country_code for the
\* rows of query_location).
Row(first, country_code, postal_code, place_name, state_name, state_code, latitude, longitude) ==
  [ empty |-> FALSE, first |-> first, country_code |-> country_code,
    postal_code |-> postal_code, place_name |-> place_name,
    state_name |-> state_name, state_code |-> state_code,
    latitude |-> latitude, longitude |-> longitude ]

EmptySeries ==
  [ empty |-> TRUE, first |-> "postal_code", country_code |-> None,
    postal_code |-> None, place_name |-> None, state_name |-> None,
    state_code |-> None, latitude |-> None, longitude |-> None ]

\* accuracy_of grading "high" as soon as a postal code or the coordinates are there
accuracy_of_either(latitude, longitude, postal_code) ==
  IF (NotNone(latitude) /\ NotNone(longitude)) \/ Truthy(postal_code) THEN "high"
  ELSE "low"

\* lines 163-169: the accuracy grade
accuracy_of(latitude, longitude, postal_code) ==
  IF NotNone(latitude) /\ NotNone(longitude) /\ Truthy(postal_code) THEN "high"
  ELSE IF (NotNone(latitude) /\ NotNone(longitude)) \/ Truthy(postal_code)
       THEN "medium"
  ELSE "low"

pgeocode_to_geolocation(result) ==
  IF result.empty \/ IsNone(result[result.first]) THEN None
  ELSE
    LET country_code ==
          Strip(IF IsNone(result.country_code) THEN s_nan ELSE Val(result.country_code))
    IN
    IF Len(country_code) = 0 THEN None
    ELSE IF ~pycountry_installed THEN None  \* import fails inside the try: caught, None
    ELSE
      LET country == pycountry_get("alpha_2", country_code)
          country_3letter == IF NotNone(country) THEN Val(country).alpha_3 ELSE country_code
          country_full == IF NotNone(country) THEN Val(country).name ELSE s_Unknown
          state_full == result.state_name
          state_code == result.state_code
          place_name == result.place_name
          postal_code == result.postal_code
          city == IF Truthy(place_name) THEN Some(SplitFirst(Val(place_name), ",")) ELSE None
          latitude == result.latitude
          longitude == result.longitude
          address_parts ==
            (IF Truthy(place_name) THEN <<Val(place_name)>> ELSE <<>>)
            \o (IF Truthy(state_full) THEN <<Val(state_full)>> ELSE <<>>)
            \o (IF Len(country_full) > 0 /\ country_full # s_Unknown
                THEN <<country_full>> ELSE <<>>)
          formatted_address ==
            IF Len(address_parts) > 0 THEN Some(Join(address_parts, s_comma_sp)) ELSE None
          accuracy == accuracy_of(latitude, longitude, postal_code)
      IN  Some(GeoLocation(
            country_3letter, country_full,
            IF Truthy(postal_code) THEN Val(postal_code) ELSE s_empty,
            IF Truthy(city) THEN Val(city) ELSE s_empty,
            state_full, state_code,
            IF NotNone(latitude) THEN Val(latitude) ELSE 0,
            IF NotNone(longitude) THEN Val(longitude) ELSE 0,
            accuracy, formatted_address))

\* ------------------------------------------------- pgeocode (collaborator)
\* Country codes for which pgeocode ships a dataset (a sample); the handle
\* constructors raise ValueError for any other code and may fail to load data.
pgeocode_supported == {s_US, s_CA}

\* What constructing a handle for country_code can do, "cached" when no
\* constructor runs because the cache already holds the key.
HandleOutcomes(cache, country_code) ==
  IF country_code \in DOMAIN cache THEN {"cached"}
  ELSE IF Upper(country_code) \in pgeocode_supported THEN {"ok", "raise"}
  ELSE {"raise"}

\* get_handle constructing a handle on every use of the key
get_handle_rebuild(cache, cls, country_code) ==
  [k \in DOMAIN cache \cup {country_code} |->
     IF k = country_code
     THEN [cls |-> cls, country |-> country_code, serial |-> Cardinality(DOMAIN cache) + 1]
     ELSE cache[k]]

\* _get_nominatim / _get_geodistance when the constructor succeeds
get_handle(cache, cls, country_code) ==
  IF country_code \in DOMAIN cache THEN cache
  ELSE cache @@ (country_code :>
         [cls |-> cls, country |-> country_code, serial |-> Cardinality(DOMAIN cache) + 1])

Raised == [raised |-> TRUE, value |-> None]
Ok(v) == [raised |-> FALSE, value |-> v]

P_full ==
  Row("postal_code", Some(s_US), Some(s_90210), Some(s_Beverly_Hills),
      Some(s_California), Some(s_CA), Some(340901), Some(-1184065))
P_comma ==
  Row("postal_code", Some(s_US), Some(s_75460), Some(s_Paris_Lamar),
      Some(s_Texas), Some(s_TX), Some(336609), Some(-955555))
P_miss ==
  Row("postal_code", None, Some(s_90210), None, None, None, None, None)
P_lat0 ==
  Row("postal_code", Some(s_US), Some(s_90210), Some(s_Beverly_Hills),
      Some(s_California), Some(s_CA), Some(0), Some(-1184065))
P_lon0 ==
  Row("postal_code", Some(s_US), Some(s_90210), Some(s_Beverly_Hills),
      Some(s_California), Some(s_CA), Some(340901), Some(0))
P_blank_country ==
  Row("postal_code", Some(<<" ">>), Some(s_90210), Some(s_Beverly_Hills),
      Some(s_California), Some(s_CA), Some(340901), Some(-1184065))

\* responses of Nominatim.query_postal_code(zip_code)
PostalResponses ==
  {Raised, Ok(P_full), Ok(P_comma), Ok(P_miss), Ok(P_lat0), Ok(P_lon0), Ok(P_blank_country),
   Ok(EmptySeries)}

L_il ==
  Row("country_code", Some(s_US), Some(<<"6","2","7","0","1">>), Some(s_Springfield),
      Some(s_Illinois), Some(s_IL), Some(398017), Some(-896436))
L_mo ==
  Row("country_code", Some(s_US), Some(<<"6","5","8","0","1">>), Some(s_Springfield),
      Some(s_Missouri), Some(s_MO), Some(372153), Some(-932982))
L_tx ==
  Row("country_code", Some(s_US), None, Some(s_Paris_Lamar),
      Some(s_Texas), Some(s_TX), Some(336609), Some(-955555))
L_low ==
  Row("country_code", Some(s_US), None, Some(s_Paris_Lamar), None, None, None, None)

\* responses of Nominatim.query_location(city_name, fuzzy_threshold=80)
LocationResponses ==
  {Raised, Ok(<<>>), Ok(<<L_il>>), Ok(<<L_il, L_mo>>), Ok(<<L_tx>>), Ok(<<L_low>>)}

\* results[results['state_name'].str.contains(state_name, case=False, na=False)]
filter_by_state(results, state_name) ==
  LET Match(r) == NotNone(r.state_name)
                  /\ Contains(Lower(Val(r.state_name)), Lower(state_name))
  IN  SelectSeq(results, Match)

\* ------------------------------------------------------ LLM (collaborator)
SupportedProviders == {"google", "anthropic", "deepseek", "openai"}

\* llm.get_llm(provider): env_provider is os.getenv("LLM_PROVIDER", "openai"),
\* client_ok whether the client class constructs
get_llm(provider, env_provider, client_ok) ==
  LET p == IF IsNone(provider) THEN env_provider ELSE Val(provider)
  IN  IF p \in SupportedProviders
      THEN IF client_ok THEN Return([provider |-> p]) ELSE Raise("ClientError")
      ELSE Raise("ValueError")

M_full ==
  GeoLocation(s_USA, s_United_States, s_55501, s_Mankato, Some(s_Minnesota),
              Some(s_MN), 441635, -939994, "high", Some(s_Carlson_addr))
M_no_address ==
  GeoLocation(s_USA, s_United_States, s_empty, s_Mankato, Some(s_Minnesota),
              Some(s_MN), 0, 0, "medium", None)
M_empty_address ==
  GeoLocation(s_USA, s_United_States, s_empty, s_empty, None, None, 0, 0, "low",
              Some(s_empty))

\* what llm_with_structured_output.invoke(prompt) can do: raise, return None,
\* return a value that is no GeoLocation (a dict), or return a GeoLocation
InvokeResponses ==
  { [kind |-> "raise", value |-> None], [kind |-> "none", value |-> None],
    [kind |-> "dict", value |-> None],
    [kind |-> "record", value |-> Some(M_full)],
    [kind |-> "record", value |-> Some(M_no_address)],
    [kind |-> "record", value |-> Some(M_empty_address)] }

\* llm_outcome returning the model's record as it came
llm_outcome_unmarked(response) ==
  IF response.kind = "record" THEN Return(Val(response.value))
  ELSE Return(LlmErrorSentinel)

\* llm_outcome with the attribute access left outside the try block
llm_outcome_unguarded(response) ==
  IF response.kind = "record"
  THEN LET result == Val(response.value)
           original_address == result.formatted_address
       IN  Return([result EXCEPT !.formatted_address =
                     IF Truthy(original_address)
                     THEN Some(Val(original_address) \o s_sp_LLM)
                     ELSE Some(s_LLM)])
  ELSE IF response.kind = "raise" THEN Return(LlmErrorSentinel)
  ELSE Raise("AttributeError")

\* lines 281-306 of _geocode_with_llm: the try block around invoke.  A None or
\* a dict has no attribute formatted_address: AttributeError, caught at line 292.
llm_outcome(response) ==
  IF response.kind = "record"
  THEN LET result == Val(response.value)
           original_address == result.formatted_address
       IN  Return([result EXCEPT !.formatted_address =
                     IF Truthy(original_address)
                     THEN Some(Val(original_address) \o s_sp_LLM)
                     ELSE Some(s_LLM)])
  ELSE Return(LlmErrorSentinel)

NotInvoked == [kind |-> "not_invoked", value |-> None]

\* ---------------------------------------------------------------- geocode
CityNames == {s_empty, s_Springfield}
StateNames == {s_empty, s_missouri}
ZipCodes == {s_empty, s_90210}
BusinessNames == {s_empty, s_Carlson_Craft}
CountryInputs ==
  {s_empty, s_us, s_USA, s_United_States, s_ZZ, s_XYZ, s_Atlantis}

GeocodeArgs ==
  [ city_name : CityNames, state_name : StateNames, zip_code : ZipCodes,
    business_name : BusinessNames, country : CountryInputs, use_llm : BOOLEAN ]

\* geocode_decide with the fallback tried before the deterministic result is looked at
geocode_decide_fallback_first(args, pg_bound, pg_result) ==
  IF args.use_llm THEN [pc |-> "llm", outcome |-> Running]
  ELSE IF ~pg_bound THEN [pc |-> "done", outcome |-> Raise("UnboundLocalError")]
  ELSE IF NotNone(pg_result) THEN [pc |-> "done", outcome |-> Return(Val(pg_result))]
  ELSE [pc |-> "done", outcome |-> Return(EmptySentinel)]

\* geocode_decide with a low-accuracy deterministic record dropped when use_llm is off
geocode_decide_drops_low(args, pg_bound, pg_result) ==
  IF pg_bound /\ NotNone(pg_result) /\ Val(pg_result).accuracy # "low"
  THEN [pc |-> "done", outcome |-> Return(Val(pg_result))]
  ELSE IF args.use_llm THEN [pc |-> "llm", outcome |-> Running]
  ELSE IF ~pg_bound THEN [pc |-> "done", outcome |-> Raise("UnboundLocalError")]
  ELSE [pc |-> "done", outcome |-> Return(EmptySentinel)]

\* lines 431-464 of geocode: what follows the deterministic attempt.  pg_bound
\* records whether the local pg_result was ever assigned.
geocode_decide(args, pg_bound, pg_result) ==
  IF pg_bound /\ NotNone(pg_result) /\ Val(pg_result).accuracy # "low"
  THEN [pc |-> "done", outcome |-> Return(Val(pg_result))]
  ELSE IF args.use_llm THEN [pc |-> "llm", outcome |-> Running]
  ELSE IF ~pg_bound THEN [pc |-> "done", outcome |-> Raise("UnboundLocalError")]
  ELSE IF NotNone(pg_result) THEN [pc |-> "done", outcome |-> Return(Val(pg_result))]
  ELSE [pc |-> "done", outcome |-> Return(EmptySentinel)]

\* pgeocode_entry without the country-code guard of lines 207-209
pgeocode_entry_unguarded(zip_code, city_name, country_code) ==
  IF Len(zip_code) > 0 THEN "pg_postal"
  ELSE IF Len(city_name) > 0 THEN "pg_city"
  ELSE "return_none"

\* lines 207-221 of _geocode_with_pgeocode: which lookup runs first
pgeocode_entry(zip_code, city_name, country_code) ==
  IF ~Truthy(country_code) THEN "return_none"
  ELSE IF Len(zip_code) > 0 THEN "pg_postal"
  ELSE IF Len(city_name) > 0 THEN "pg_city"
  ELSE "return_none"

\* a lookup step of _geocode_with_pgeocode that did not run
NotRun == [kind |-> "skipped", location |-> None, row |-> EmptySeries, found |-> <<>>]

\* pgeocode_fault with the exception let through
pgeocode_fault_propagates(what) == Raise("Exception")

\* lines 240-242: an exception raised anywhere in the try block ends
\* _geocode_with_pgeocode with None
pgeocode_fault(what) == Return(None)

\* line 217: whether the postal-code step returns the converted record
postal_usable(location) ==
  NotNone(location) /\ Len(Val(location).city) > 0 /\ Val(location).latitude # 0

\* PgReturn with the lookup result dropped once the object has served a
\* distance or radius call
PgReturn_history(fr, ended) ==
  LET seen == IF DOMAIN geodistance_cache = {} THEN ended ELSE Return(None)
  IN  /\ frame' = IF seen.kind = "return"
                  THEN [fr EXCEPT !.pg_bound = TRUE, !.pg_result = seen.value]
                  ELSE fr
      /\ IF seen.kind = "return" /\ call.op = "geocode"
         THEN LET d == geocode_decide(call.args, TRUE, seen.value)
              IN  pc' = d.pc /\ outcome' = d.outcome
         ELSE pc' = "done" /\ outcome' = seen

\* _geocode_with_pgeocode ends: to geocode, which goes on with lines 431-464,
\* or to the caller when the method was called on its own.  fr is the frame
\* with the record of the lookup steps.
PgReturn(fr, ended) ==
  /\ frame' = IF ended.kind = "return"
              THEN [fr EXCEPT !.pg_bound = TRUE, !.pg_result = ended.value]
              ELSE fr
  /\ IF ended.kind = "return" /\ call.op = "geocode"
     THEN LET d == geocode_decide(call.args, TRUE, ended.value)
          IN  pc' = d.pc /\ outcome' = d.outcome
     ELSE pc' = "done" /\ outcome' = ended

Geocode ==
  /\ pc = "idle"
  /\ \E args \in GeocodeArgs :
       LET country_code == normalize_country_code(args.country)
           entry == pgeocode_entry(args.zip_code, args.city_name, country_code)
           fr == [ country_code |-> country_code, pg_bound |-> FALSE,
                   pg_result |-> None, fallback_calls |-> <<>>,
                   llm_response |-> NotInvoked, llm_ended |-> Running,
                   postal |-> NotRun, city |-> NotRun ]
       IN  /\ call' = [op |-> "geocode", args |-> args]
           /\ trace' = <<>>
           /\ IF Truthy(country_code)
              THEN IF entry = "return_none"
                   THEN LET d == geocode_decide(args, TRUE, None)
                        IN  /\ frame' = [fr EXCEPT !.pg_bound = TRUE]
                            /\ pc' = d.pc
                            /\ outcome' = d.outcome
                   ELSE /\ frame' = fr
                        /\ pc' = entry
                        /\ outcome' = Running
              ELSE LET d == geocode_decide(args, FALSE, None)
                   IN  /\ frame' = fr
                       /\ pc' = d.pc
                       /\ outcome' = d.outcome
  /\ UNCHANGED << printed, pycountry_installed, llm_provider, nominatim_cache,
                  geodistance_cache, llm >>

\* the state_name argument of a direct call of _geocode_with_pgeocode
PgStateNames == StateNames \cup {s_misso_ri}

\* the country_code argument of a direct call of _geocode_with_pgeocode
PgCountryCodes == {None, Some(s_empty), Some(s_US), Some(s_ZZ)}

\* lines 188-209: _geocode_with_pgeocode called on its own
GeocodeWithPgeocode ==
  /\ pc = "idle"
  /\ \E zip_code \in ZipCodes, city_name \in CityNames, state_name \in PgStateNames,
        country_code \in PgCountryCodes :
       LET entry == pgeocode_entry(zip_code, city_name, country_code)
       IN  /\ call' = [op |-> "_geocode_with_pgeocode",
                       args |-> [zip_code |-> zip_code, city_name |-> city_name,
                                 state_name |-> state_name,
                                 country_code |-> country_code]]
           /\ frame' = [ country_code |-> country_code, pg_bound |-> FALSE,
                         pg_result |-> None, fallback_calls |-> <<>>,
                         llm_response |-> NotInvoked, llm_ended |-> Running,
                         postal |-> NotRun, city |-> NotRun ]
           /\ trace' = <<>>
           /\ IF entry = "return_none"
              THEN pc' = "done" /\ outcome' = Return(None)
              ELSE pc' = entry /\ outcome' = Running
  /\ UNCHANGED << printed, pycountry_installed, llm_provider, nominatim_cache,
                  geodistance_cache, llm >>

\* lines 213-218: the postal-code step
PgPostal ==
  /\ pc = "pg_postal"
  /\ LET country_code == Val(frame.country_code)
         faulted == [frame EXCEPT !.postal = [NotRun EXCEPT !.kind = "fault"]]
     IN  \E ctor \in HandleOutcomes(nominatim_cache, country_code) :
           IF ctor = "raise"
           THEN /\ nominatim_cache' = nominatim_cache
                /\ trace' = Append(trace, "Nominatim")
                /\ PgReturn(faulted, pgeocode_fault("Nominatim"))
           ELSE \E response \in PostalResponses :
                /\ nominatim_cache' = get_handle(nominatim_cache, "Nominatim", country_code)
                /\ trace' = trace \o (IF ctor = "ok" THEN <<"Nominatim">> ELSE <<>>)
                                  \o <<"Nominatim.query_postal_code">>
                /\ IF response.raised
                   THEN PgReturn(faulted, pgeocode_fault("query_postal_code"))
                   ELSE LET location == pgeocode_to_geolocation(response.value)
                            hit == postal_usable(location)
                            fr == [frame EXCEPT !.postal =
                                     [kind |-> IF hit THEN "hit" ELSE "miss",
                                      location |-> location,
                                      row |-> response.value, found |-> <<>>]]
                        IN  IF hit
                            THEN PgReturn(fr, Return(location))
                            ELSE IF Len(call.args.city_name) > 0
                                 THEN /\ pc' = "pg_city"
                                      /\ frame' = fr
                                      /\ outcome' = outcome
                                 ELSE PgReturn(fr, Return(None))
  /\ UNCHANGED << printed, pycountry_installed, llm_provider, geodistance_cache, llm, call >>

\* lines 221-238: the city step
PgCity ==
  /\ pc = "pg_city"
  /\ LET country_code == Val(frame.country_code)
         faulted == [frame EXCEPT !.city = [NotRun EXCEPT !.kind = "fault"]]
     IN  \E ctor \in HandleOutcomes(nominatim_cache, country_code) :
           IF ctor = "raise"
           THEN /\ nominatim_cache' = nominatim_cache
                /\ trace' = Append(trace, "Nominatim")
                /\ PgReturn(faulted, pgeocode_fault("Nominatim"))
           ELSE \E response \in LocationResponses :
                /\ nominatim_cache' = get_handle(nominatim_cache, "Nominatim", country_code)
                /\ trace' = trace \o (IF ctor = "ok" THEN <<"Nominatim">> ELSE <<>>)
                                  \o <<"Nominatim.query_location">>
                /\ IF response.raised
                   THEN PgReturn(faulted, pgeocode_fault("query_location"))
                   ELSE LET state_name == call.args.state_name
                            found == response.value
                            filtering == Len(state_name) > 0 /\ Len(found) > 0
                        IN  \E filter_raises \in (IF filtering THEN BOOLEAN ELSE {FALSE}) :
                              IF filter_raises
                              THEN PgReturn(faulted, pgeocode_fault("str.contains"))
                              ELSE LET state_filtered ==
                                         IF filtering THEN filter_by_state(found, state_name)
                                         ELSE <<>>
                                       results == IF Len(state_filtered) > 0
                                                  THEN state_filtered ELSE found
                                       location == IF Len(results) > 0
                                                   THEN pgeocode_to_geolocation(results[1])
                                                   ELSE None
                                       fr == [frame EXCEPT !.city =
                                                [kind |-> IF Len(results) > 0 THEN "row"
                                                          ELSE "empty",
                                                 location |-> location,
                                                 row |-> IF Len(results) > 0
                                                         THEN results[1]
                                                         ELSE EmptySeries,
                                                 found |-> found]]
                                   IN  PgReturn(fr, Return(location))
  /\ UNCHANGED << printed, pycountry_installed, llm_provider, geodistance_cache, llm, call >>

\* _geocode_with_llm ends: the client it leaves in self._llm, the collaborator
\* calls it made, the response of invoke (if it got that far) and how it ended
LlmReturn(client, calls, response, ended) ==
  LET a == call.args
      fallback_args ==
        [ city_name |-> a.city_name, state_name |-> a.state_name,
          zip_code |-> a.zip_code, business_name |-> a.business_name,
          country |-> a.country ]
  IN  /\ llm' = client
      /\ trace' = trace \o calls
      /\ frame' = [frame EXCEPT !.fallback_calls = Append(@, fallback_args),
                                !.llm_response = response,
                                !.llm_ended = ended]
      /\ outcome' = ended
      /\ pc' = "done"

\* _geocode_with_llm (lines 265-306), called from line 439 of geocode, which
\* returns what it returns
GeocodeWithLlm ==
  /\ pc = "llm"
  /\ IF NotNone(llm)
     THEN \* _get_llm returns the client created earlier
          \E structured \in {"ok", "raise"} :
            IF structured = "raise"
            THEN LlmReturn(llm, <<"with_structured_output">>, NotInvoked,
                           Raise("StructuredOutputError"))
            ELSE \E response \in InvokeResponses :
                   LlmReturn(llm, <<"with_structured_output", "invoke">>, response,
                             llm_outcome(response))
     ELSE \E env_provider \in (IF IsNone(llm_provider) THEN {"openai", "mistral"}
                               ELSE {"openai"}),
             client_ok \in BOOLEAN :
            LET made == get_llm(llm_provider, env_provider, client_ok)
            IN  IF made.kind = "raise"
                THEN LlmReturn(None, <<"get_llm">>, NotInvoked, made)
                ELSE \E structured \in {"ok", "raise"} :
                       IF structured = "raise"
                       THEN LlmReturn(Some(made.value),
                                      <<"get_llm", "with_structured_output">>,
                                      NotInvoked, Raise("StructuredOutputError"))
                       ELSE \E response \in InvokeResponses :
                              LlmReturn(Some(made.value),
                                        <<"get_llm", "with_structured_output", "invoke">>,
                                        response, llm_outcome(response))
  /\ UNCHANGED << printed, pycountry_installed, llm_provider, nominatim_cache,
                  geodistance_cache, call >>

\* ------------------------------------------------------------- haversine
\* Fixed-point arithmetic: angles in 1e-4 radian, sines in 1e-4.
Scale == 10 ^ 4
Pi == (355 * Scale) \div 113
HalfPi == Pi \div 2
r == 6371

\* np.radians of an angle given in 1e-4 degree
radians(deg) == ((deg \div 100) * 17453) \div Scale

\* sin x for 0 <= x <= pi/2: x - x^3/3! + x^5/5! - x^7/7! + x^9/9!
SinSeries(x) ==
  LET x2 == (x * x) \div Scale
      t3 == (x * x2) \div (6 * Scale)
      t5 == (t3 * x2) \div (20 * Scale)
      t7 == (t5 * x2) \div (42 * Scale)
      t9 == (t7 * x2) \div (72 * Scale)
  IN  x - t3 + t5 - t7 + t9

RECURSIVE Sin(_)
Sin(x) ==
  IF x < 0 THEN 0 - Sin(0 - x)
  ELSE IF x > Pi THEN 0 - Sin(x - Pi)
  ELSE IF x > HalfPi THEN Sin(Pi - x)
  ELSE SinSeries(x)

Cos(x) == Sin(HalfPi - x)

\* floor of the square root, by bisection
RECURSIVE SqrtBetween(_, _, _)
SqrtBetween(n, lo, hi) ==
  IF lo >= hi THEN lo
  ELSE LET m == (lo + hi + 1) \div 2
       IN  IF m * m <= n THEN SqrtBetween(n, m, hi) ELSE SqrtBetween(n, lo, m - 1)

\* np.arcsin on [0, 1]: the largest angle in [0, pi/2] whose sine is <= y
RECURSIVE ArcsinBetween(_, _, _)
ArcsinBetween(y, lo, hi) ==
  IF lo >= hi THEN lo
  ELSE LET m == (lo + hi + 1) \div 2
       IN  IF Sin(m) <= y THEN ArcsinBetween(y, m, hi) ELSE ArcsinBetween(y, lo, m - 1)

\* haversine_distance without the cosines of the latitudes
haversine_distance_no_cos(lat1, lon1, lat2, lon2) ==
  LET dlon == radians(lon2) - radians(lon1)
      dlat == radians(lat2) - radians(lat1)
      sdlat == Sin(dlat \div 2)
      sdlon == Sin(dlon \div 2)
      a0 == (sdlat * sdlat) \div Scale + (sdlon * sdlon) \div Scale
      a == IF a0 > Scale THEN Scale ELSE a0
      c == 2 * ArcsinBetween(SqrtBetween(a * Scale, 0, Scale), 0, HalfPi)
  IN  (c * r) \div Scale

\* _haversine_distance, in km
haversine_distance(lat1, lon1, lat2, lon2) ==
  LET rlat1 == radians(lat1)
      rlon1 == radians(lon1)
      rlat2 == radians(lat2)
      rlon2 == radians(lon2)
      dlon == rlon2 - rlon1
      dlat == rlat2 - rlat1
      sdlat == Sin(dlat \div 2)
      sdlon == Sin(dlon \div 2)
      a0 == (sdlat * sdlat) \div Scale
            + ((((Cos(rlat1) * Cos(rlat2)) \div Scale) * ((sdlon * sdlon) \div Scale))
               \div Scale)
      a == IF a0 > Scale THEN Scale ELSE a0
      c == 2 * ArcsinBetween(SqrtBetween(a * Scale, 0, Scale), 0, HalfPi)
  IN  (c * r) \div Scale

\* ------------------------------------------------------ calculate_distance
G_la ==
  GeoLocation(s_USA, s_United_States, s_90210, s_Beverly_Hills, Some(s_California),
              Some(s_CA), 340901, -1184065, "high", None)
G_ny ==
  GeoLocation(s_USA, s_United_States, s_10001, s_New_York, Some(s_New_York),
              Some(s_NY), 407128, -740060, "high", None)
G_no_country ==
  GeoLocation(s_empty, s_Unknown, s_90210, s_Beverly_Hills, None, None,
              340901, -1184065, "medium", None)
G_lon0 ==
  GeoLocation(s_USA, s_United_States, s_10001, s_New_York, None, None,
              407128, 0, "medium", None)

\* an origin / destination / reference argument: a postal-code str or a GeoLocation
PostalArg(code) == [is_loc |-> FALSE, str |-> code, loc |-> None]
LocArg(g) == [is_loc |-> TRUE, str |-> s_empty, loc |-> Some(g)]

Endpoints ==
  {PostalArg(s_90210), LocArg(G_la), LocArg(G_ny), LocArg(G_no_country),
   LocArg(G_lon0), LocArg(EmptySentinel)}

CountryCodeArgs == {None, Some(s_US), Some(s_ZZ), Some(s_empty)}

\* responses of GeoDistance.query_postal_code(origin_code, dest_code): an
\* error, NaN for unknown codes, or a distance in km
DistanceResponses == {Raised, Ok(None), Ok(Some(0)), Ok(Some(4))}

postal_code_of(x) == IF x.is_loc THEN Val(x.loc).postal_code ELSE x.str

\* distance_country_code with "US" assumed when no code can be derived
distance_country_code_default_us(origin, destination, country_code) ==
  IF IsNone(country_code)
  THEN IF origin.is_loc /\ Len(Val(origin.loc).country) > 0
       THEN Some(iso3_to_iso2_country(Val(origin.loc).country))
       ELSE IF destination.is_loc /\ Len(Val(destination.loc).country) > 0
            THEN Some(iso3_to_iso2_country(Val(destination.loc).country))
            ELSE Some(s_US)
  ELSE country_code

\* distance_country_code taking the destination's country when the origin
\* record has none
distance_country_code_either(origin, destination, country_code) ==
  IF IsNone(country_code)
  THEN IF origin.is_loc /\ Len(Val(origin.loc).country) > 0
       THEN Some(iso3_to_iso2_country(Val(origin.loc).country))
       ELSE IF destination.is_loc
            THEN Some(iso3_to_iso2_country(Val(destination.loc).country))
            ELSE None
  ELSE country_code

\* lines 487-492
distance_country_code(origin, destination, country_code) ==
  IF IsNone(country_code)
  THEN IF origin.is_loc THEN Some(iso3_to_iso2_country(Val(origin.loc).country))
       ELSE IF destination.is_loc
            THEN Some(iso3_to_iso2_country(Val(destination.loc).country))
            ELSE None
  ELSE country_code

\* distance_fallback re-raising the error when the country is not one pgeocode knows
distance_fallback_reraises(origin, destination, country_code) ==
  IF Upper(country_code) \notin pgeocode_supported THEN Raise("ValueError")
  ELSE IF origin.is_loc /\ destination.is_loc
     /\ Val(origin.loc).latitude # 0 /\ Val(origin.loc).longitude # 0
     /\ Val(destination.loc).latitude # 0 /\ Val(destination.loc).longitude # 0
  THEN Return(Some(haversine_distance(Val(origin.loc).latitude, Val(origin.loc).longitude,
                                      Val(destination.loc).latitude,
                                      Val(destination.loc).longitude)))
  ELSE Return(Some(-1))

\* distance_fallback testing the latitudes only
distance_fallback_latitude_only(origin, destination, country_code) ==
  IF origin.is_loc /\ destination.is_loc
     /\ Val(origin.loc).latitude # 0 /\ Val(destination.loc).latitude # 0
  THEN Return(Some(haversine_distance(Val(origin.loc).latitude, Val(origin.loc).longitude,
                                      Val(destination.loc).latitude,
                                      Val(destination.loc).longitude)))
  ELSE Return(Some(-1))

\* lines 503-516: the except branch, entered with the country code in use
distance_fallback(origin, destination, country_code) ==
  IF origin.is_loc /\ destination.is_loc
     /\ Val(origin.loc).latitude # 0 /\ Val(origin.loc).longitude # 0
     /\ Val(destination.loc).latitude # 0 /\ Val(destination.loc).longitude # 0
  THEN Return(Some(haversine_distance(Val(origin.loc).latitude, Val(origin.loc).longitude,
                                      Val(destination.loc).latitude,
                                      Val(destination.loc).longitude)))
  ELSE Return(Some(-1))

\* lines 483-496
CalculateDistance ==
  /\ pc = "idle"
  /\ \E origin \in Endpoints, destination \in Endpoints, cc \in CountryCodeArgs :
       LET country_code == distance_country_code(origin, destination, cc)
       IN  /\ call' = [op |-> "calculate_distance",
                       args |-> [origin |-> origin, destination |-> destination,
                                 country_code |-> cc]]
           /\ frame' = [ country_code |-> country_code,
                         origin_code |-> postal_code_of(origin),
                         dest_code |-> postal_code_of(destination),
                         primary |-> Raised ]
           /\ trace' = <<>>
           /\ IF ~Truthy(country_code)
              THEN pc' = "done" /\ outcome' = Raise("ValueError")
              ELSE pc' = "distance_query" /\ outcome' = Running
  /\ UNCHANGED << printed, pycountry_installed, llm_provider, nominatim_cache,
                  geodistance_cache, llm >>

\* distance_next with the query tried again after an error
distance_next_retry(primary) == IF primary.raised THEN "distance_query" ELSE "done"

\* lines 498-516: the try block and its handler both end in a return, whatever
\* the query did
distance_next(primary) == "done"

\* lines 498-516: primary is what the try block did (a float, or an exception)
DistanceQuery ==
  /\ pc = "distance_query"
  /\ LET country_code == Val(frame.country_code)
         a == call.args
     IN  \E ctor \in HandleOutcomes(geodistance_cache, country_code) :
           IF ctor = "raise"
           THEN /\ geodistance_cache' = geodistance_cache
                /\ trace' = Append(trace, "GeoDistance")
                /\ frame' = [frame EXCEPT !.primary = Raised]
                /\ outcome' = distance_fallback(a.origin, a.destination, country_code)
           ELSE \E response \in DistanceResponses :
                /\ geodistance_cache' =
                     get_handle(geodistance_cache, "GeoDistance", country_code)
                /\ trace' = trace \o (IF ctor = "ok" THEN <<"GeoDistance">> ELSE <<>>)
                                  \o <<"GeoDistance.query_postal_code">>
                /\ frame' = [frame EXCEPT !.primary = response]
                /\ outcome' = IF response.raised
                              THEN distance_fallback(a.origin, a.destination, country_code)
                              ELSE Return(response.value)
  /\ pc' = distance_next(frame'.primary)
  /\ UNCHANGED << printed, pycountry_installed, llm_provider, nominatim_cache, llm, call >>

\* --------------------------------------------------- find_nearby_locations
MaxCandidates == 3

RadiusArgs == {5, 50}

\* the caller's postal_codes argument: None, or a list of candidate codes
Candidates == [k \in 1..MaxCandidates |-> Fmt05d(10000 + k)]
PostalCodesArgs == {None} \cup {Some(SubSeq(Candidates, 1, n)) : n \in 0..MaxCandidates}

References == {PostalArg(s_10001), LocArg(G_ny), LocArg(EmptySentinel)}

\* [f"{i:05d}" for i in range(lo, hi)], cut to the first MaxCandidates codes
RangeCodes(lo, hi) ==
  [k \in 1..(IF hi - lo < MaxCandidates THEN hi - lo ELSE MaxCandidates) |->
     Fmt05d(lo + k - 1)]

\* lines 578-599: the candidate list when the caller passes none; csv is what
\* loading us_zips.csv does ("ok" with the file's codes, or "error")
default_postal_codes(country_code, csv) ==
  IF Upper(country_code) = s_US
  THEN IF csv = "ok" THEN RangeCodes(90210, 90310) ELSE RangeCodes(10001, 10201)
  ELSE RangeCodes(10000, 10100)

\* one distance of the batched answer: NaN or km
DistanceValues == {None, Some(3), Some(7)}

\* responses of GeoDistance.query_postal_code(ref_code, postal_codes)
BatchResponses(n) == {Raised} \cup {Ok(d) : d \in [1..n -> DistanceValues]}

\* np.where(distances <= radius_km)[0]: NaN compares false
nearby_indices_of(distances, radius_km) ==
  LET Within(i) == NotNone(distances[i]) /\ Val(distances[i]) <= radius_km
      RECURSIVE Scan(_)
      Scan(i) == IF i > Len(distances) THEN <<>>
                 ELSE (IF Within(i) THEN <<i>> ELSE <<>>) \o Scan(i + 1)
  IN  Scan(1)

\* a row of the frame Nominatim.query_postal_code(nearby_codes) returns: the
\* dataset's fields for the code, all NaN for an unknown code, or a row whose
\* conversion raises
NamedRow(code) == [bad |-> FALSE, postal_code |-> Some(code), place_name |-> Some(s_New_York)]
NanRow == [bad |-> FALSE, postal_code |-> None, place_name |-> None]
BadRow == [bad |-> TRUE, postal_code |-> None, place_name |-> None]

\* the frames the model lets the dataset return for nearby_codes: complete, one
\* row NaN, one row bad, or one row short
EnrichResponses(nearby_codes) ==
  LET m == Len(nearby_codes)
      full == [i \in 1..m |-> NamedRow(nearby_codes[i])]
  IN  {Raised, Ok(full)}
      \cup {Ok([full EXCEPT ![j] = NanRow]) : j \in 1..m}
      \cup {Ok([full EXCEPT ![j] = BadRow]) : j \in 1..m}
      \cup {Ok(SubSeq(full, 1, m - 1))}

\* lines 619-630: the entry for position i of nearby_codes
nearby_entry(nearby_data, nearby_codes, nearby_indices, distances, i) ==
  LET row_data == IF i <= Len(nearby_data) THEN nearby_data[i] ELSE NanRow
  IN  [ postal_code |-> IF IsNone(row_data.postal_code) THEN nearby_codes[i]
                        ELSE Val(row_data.postal_code),
        place_name |-> row_data.place_name,
        distance_km |-> Val(distances[nearby_indices[i]]) ]

\* sorted_by_distance with the sort left out
sorted_by_distance_unsorted(result) == result

\* sorted(result, key=lambda x: x['distance_km']): stable
InsertByDistance(sorted, x) ==
  LET k == Cardinality({i \in 1..Len(sorted) : sorted[i].distance_km <= x.distance_km})
  IN  SubSeq(sorted, 1, k) \o <<x>> \o SubSeq(sorted, k + 1, Len(sorted))

RECURSIVE sorted_by_distance(_)
sorted_by_distance(result) ==
  IF Len(result) = 0 THEN <<>>
  ELSE InsertByDistance(sorted_by_distance(SubSeq(result, 1, Len(result) - 1)),
                        result[Len(result)])

\* nearby_outcome returning whatever was built when the error struck
nearby_outcome_partial(result, complete) == Return(sorted_by_distance(result))

\* lines 616-636: the sorted list when every entry was built, [] when an
\* error interrupted the loop
nearby_outcome(result, complete) ==
  IF complete THEN Return(sorted_by_distance(result)) ELSE Return(<<>>)

\* lines 565-566
nearby_country_code(reference, country_code) ==
  IF IsNone(country_code) /\ reference.is_loc
  THEN Some(iso3_to_iso2_country(Val(reference.loc).country))
  ELSE country_code

\* lines 561-570
FindNearbyLocations ==
  /\ pc = "idle"
  /\ \E reference \in References, radius_km \in RadiusArgs, cc \in CountryCodeArgs,
        postal_codes \in PostalCodesArgs :
       LET country_code == nearby_country_code(reference, cc)
       IN  /\ call' = [op |-> "find_nearby_locations",
                       args |-> [reference |-> reference, radius_km |-> radius_km,
                                 country_code |-> cc, postal_codes |-> postal_codes]]
           /\ frame' = [ country_code |-> country_code,
                         ref_code |-> postal_code_of(reference),
                         postal_codes |-> postal_codes, distances |-> <<>>,
                         nearby_indices |-> <<>>, nearby_codes |-> <<>>,
                         result |-> <<>>, failed |-> "none" ]
           /\ trace' = <<>>
           /\ IF ~Truthy(country_code)
              THEN pc' = "done" /\ outcome' = Raise("ValueError")
              ELSE pc' = "nearby_handles" /\ outcome' = Running
  /\ UNCHANGED << printed, pycountry_installed, llm_provider, nominatim_cache,
                  geodistance_cache, llm >>

\* lines 572-599: the two handles and the candidate list
NearbyHandles ==
  /\ pc = "nearby_handles"
  /\ LET country_code == Val(frame.country_code)
     IN  \E dist \in HandleOutcomes(geodistance_cache, country_code) :
           IF dist = "raise"
           THEN /\ trace' = Append(trace, "GeoDistance")
                /\ pc' = "done"
                /\ outcome' = Return(<<>>)
                /\ frame' = [frame EXCEPT !.failed = "handles"]
                /\ UNCHANGED << geodistance_cache, nominatim_cache >>
           ELSE \E nomi \in HandleOutcomes(nominatim_cache, country_code) :
                /\ geodistance_cache' =
                     get_handle(geodistance_cache, "GeoDistance", country_code)
                /\ IF nomi = "raise"
                   THEN /\ trace' = trace \o (IF dist = "ok" THEN <<"GeoDistance">> ELSE <<>>)
                                          \o <<"Nominatim">>
                        /\ pc' = "done"
                        /\ outcome' = Return(<<>>)
                        /\ frame' = [frame EXCEPT !.failed = "handles"]
                        /\ UNCHANGED nominatim_cache
                   ELSE /\ nominatim_cache' =
                             get_handle(nominatim_cache, "Nominatim", country_code)
                        /\ pc' = "nearby_batch"
                        /\ outcome' = Running
                        /\ IF NotNone(frame.postal_codes)
                           THEN /\ frame' = frame
                                /\ trace' = trace
                                       \o (IF dist = "ok" THEN <<"GeoDistance">> ELSE <<>>)
                                       \o (IF nomi = "ok" THEN <<"Nominatim">> ELSE <<>>)
                           ELSE \E csv \in (IF Upper(country_code) = s_US
                                            THEN {"ok", "error"} ELSE {"unused"}) :
                                /\ frame' = [frame EXCEPT !.postal_codes =
                                               Some(default_postal_codes(country_code, csv))]
                                /\ trace' = trace
                                       \o (IF dist = "ok" THEN <<"GeoDistance">> ELSE <<>>)
                                       \o (IF nomi = "ok" THEN <<"Nominatim">> ELSE <<>>)
                                       \o (IF csv = "unused" THEN <<>> ELSE <<"read_csv">>)
  /\ UNCHANGED << printed, pycountry_installed, llm_provider, llm, call >>

\* lines 601-610 and 638: the batched distance call and the radius filter
NearbyBatch ==
  /\ pc = "nearby_batch"
  /\ LET postal_codes == Val(frame.postal_codes)
     IN  \E response \in BatchResponses(Len(postal_codes)) :
           /\ trace' = Append(trace, "GeoDistance.query_postal_code")
           /\ IF response.raised
              THEN /\ pc' = "done"
                   /\ outcome' = Return(<<>>)
                   /\ frame' = [frame EXCEPT !.failed = "batch"]
              ELSE LET distances == response.value
                       nearby_indices == nearby_indices_of(distances, call.args.radius_km)
                       nearby_codes ==
                         [i \in 1..Len(nearby_indices) |-> postal_codes[nearby_indices[i]]]
                   IN  /\ frame' = [frame EXCEPT !.distances = distances,
                                                 !.nearby_indices = nearby_indices,
                                                 !.nearby_codes = nearby_codes]
                       /\ IF Len(nearby_codes) > 0
                          THEN pc' = "nearby_enrich" /\ outcome' = Running
                          ELSE pc' = "done" /\ outcome' = Return(<<>>)
  /\ UNCHANGED << printed, pycountry_installed, llm_provider, nominatim_cache,
                  geodistance_cache, llm, call >>

\* lines 613-636: the details of the retained codes, merged and sorted
NearbyEnrich ==
  /\ pc = "nearby_enrich"
  /\ pc' = "done"
  /\ \E response \in EnrichResponses(frame.nearby_codes) :
       /\ trace' = Append(trace, "Nominatim.query_postal_code")
       /\ IF response.raised
          THEN outcome' = Return(<<>>) /\ frame' = [frame EXCEPT !.failed = "enrich"]
          ELSE LET nearby_data == response.value
                   n == Len(frame.nearby_codes)
                   bad == {i \in 1..n : i <= Len(nearby_data) /\ nearby_data[i].bad}
                   built == IF bad = {} THEN n ELSE SetMin(bad) - 1
                   result == [i \in 1..built |->
                                nearby_entry(nearby_data, frame.nearby_codes,
                                             frame.nearby_indices, frame.distances, i)]
               IN  /\ frame' = [frame EXCEPT !.result = result,
                                             !.failed = IF bad = {} THEN "none" ELSE "entry"]
                   /\ outcome' = nearby_outcome(result, bad = {})
  /\ UNCHANGED << printed, pycountry_installed, llm_provider, nominatim_cache,
                  geodistance_cache, llm, call >>
\* ------------------------------------------------------- cli: nearby command
\* args.limit of the nearby command (default 10)
Limits == {-1, 0, 1, 2, 10}

\* print_nearby_locations with the slice left out
print_nearby_locations_all(locations, limit) == locations

\* cli.py lines 240-245: the entries print_nearby_locations prints, which is
\* locations[:limit] (a negative limit counts from the end)
print_nearby_locations(locations, limit) ==
  LET n == Len(locations)
      stop == IF limit >= 0 THEN (IF limit < n THEN limit ELSE n)
              ELSE (IF n + limit > 0 THEN n + limit ELSE 0)
  IN  SubSeq(locations, 1, stop)

\* cli.py lines 307-314: the nearby command prints what find_nearby_locations
\* returned, cut to args.limit
PrintNearbyLocations ==
  /\ pc = "done"
  /\ call.op = "find_nearby_locations"
  /\ outcome.kind = "return"
  /\ pc' = "printed"
  /\ \E limit \in Limits :
       printed' = Some([ limit |-> limit,
                         locations |-> print_nearby_locations(outcome.value, limit) ])
  /\ UNCHANGED << pycountry_installed, llm_provider, nominatim_cache,
                  geodistance_cache, llm, call, frame, trace, outcome >>

\* ------------------------------------------------------------ specification
Init ==
  /\ pycountry_installed \in BOOLEAN
  /\ llm_provider = None
  /\ nominatim_cache = <<>>
  /\ geodistance_cache = <<>>
  /\ llm = None
  /\ pc = "idle"
  /\ call = [op |-> "none", args |-> None]
  /\ frame = None
  /\ trace = <<>>
  /\ outcome = [kind |-> "none", value |-> None]
  /\ printed = None

\* The caller has taken the result of the finished call; the object is ready
\* for the next call.  Only the object's fields survive.
CallerContinues ==
  /\ pc \in {"done", "printed", "again"}
  /\ pc' = "idle"
  /\ call' = [op |-> "none", args |-> None]
  /\ frame' = None
  /\ trace' = <<>>
  /\ outcome' = [kind |-> "none", value |-> None]
  /\ printed' = None
  /\ UNCHANGED << pycountry_installed, llm_provider, nominatim_cache,
                  geodistance_cache, llm >>

Next ==
  \/ CallerContinues
  \/ Geocode
  \/ PgPostal
  \/ PgCity
  \/ GeocodeWithLlm
  \/ CalculateDistance
  \/ DistanceQuery
  \/ FindNearbyLocations
  \/ NearbyHandles
  \/ NearbyBatch
  \/ NearbyEnrich
  \/ PrintNearbyLocations

Spec == Init /\ [][Next]_vars

\* -------------------------------------------- the normalizer on its own
\* longest string drawn letter by letter
MaxCodeLen == 3

NormAlphabet == {"u", "s", "a", "U", "S", "A", "x"}

\* the country arguments: every string of up to MaxCodeLen letters of the
\* alphabet, and codes and names of catalogue countries and of no country
NormStrings ==
  UNION {[1..n -> NormAlphabet] : n \in 0..MaxCodeLen}
  \cup {s_CA, s_CAN, s_Canada, s_MX, s_MEX, s_Mexico, Lower(s_MEX), Lower(s_Mexico),
        s_United_States, Lower(s_United_States), s_America, s_ZZ, s_XYZ,
        Lower(s_XYZ), s_Atlantis}

\* lines 352-390: one call of _normalize_country_code
NormalizeCountryCode ==
  /\ pc = "idle"
  /\ \E country \in NormStrings :
       /\ call' = [op |-> "_normalize_country_code", args |-> [country |-> country]]
       /\ outcome' = Return(normalize_country_code(country))
  /\ pc' = "done"
  /\ frame' = None
  /\ trace' = <<>>
  /\ UNCHANGED << printed, pycountry_installed, llm_provider, nominatim_cache,
                  geodistance_cache, llm >>

\* lines 352-390: the caller passes the code it got back in again
NormalizeAgain ==
  /\ pc = "done"
  /\ call.op = "_normalize_country_code"
  /\ NotNone(outcome.value)
  /\ pc' = "again"
  /\ frame' = Some([again |-> normalize_country_code(Val(outcome.value))])
  /\ UNCHANGED << printed, pycountry_installed, llm_provider, nominatim_cache,
                  geodistance_cache, llm, call, trace, outcome >>

NormNext ==
  \/ CallerContinues
  \/ NormalizeCountryCode
  \/ NormalizeAgain

NormSpec == Init /\ [][NormNext]_vars

\* ------------------------------- the deterministic resolver on its own
PgNext ==
  \/ CallerContinues
  \/ GeocodeWithPgeocode
  \/ PgPostal
  \/ PgCity

PgSpec == Init /\ [][PgNext]_vars

\* ------------------------------------------- the row converter on its own
\* the rows handed to _pgeocode_to_geolocation: every combination of present,
\* blank and missing (NaN) fields, for both kinds of query
ConvRows ==
  {EmptySeries} \cup
  { Row(first, country_code, postal_code, place_name, state_name,
        IF NotNone(state_name) THEN Some(s_CA) ELSE None, latitude, longitude) :
      first \in {"postal_code", "country_code"},
      country_code \in {None, Some(<<" ">>), Some(s_US), Some(s_ZZ)},
      postal_code \in {None, Some(s_empty), Some(s_90210)},
      place_name \in {None, Some(s_Beverly_Hills), Some(s_Paris_Lamar)},
      state_name \in {None, Some(s_California)},
      latitude \in {None, Some(0), Some(340901)},
      longitude \in {None, Some(0), Some(-1184065)} }

\* lines 107-186: one call of _pgeocode_to_geolocation
PgeocodeToGeolocation ==
  /\ pc = "idle"
  /\ \E result \in ConvRows :
       /\ call' = [op |-> "_pgeocode_to_geolocation", args |-> [result |-> result]]
       /\ outcome' = Return(pgeocode_to_geolocation(result))
  /\ pc' = "done"
  /\ frame' = None
  /\ trace' = <<>>
  /\ UNCHANGED << printed, pycountry_installed, llm_provider, nominatim_cache,
                  geodistance_cache, llm >>

ConvNext ==
  \/ CallerContinues
  \/ PgeocodeToGeolocation

ConvSpec == Init /\ [][ConvNext]_vars

\* ------------------------------------------ the haversine formula on its own
\* points <<latitude, longitude>> in 1e-4 degree: New York and Los Angeles
\* (the test's), Beverly Hills, Chicago, London, Paris, Tokyo, Sydney
HavPoints ==
  { <<407128, -740060>>, <<340522, -1182437>>, <<340901, -1184065>>, <<418781, -876298>>,
    <<515074, -1278>>, <<488566, 23522>>, <<356762, 1396503>>, <<-338688, 1512093>> }

\* lines 518-540: one call of _haversine_distance
HaversineDistance ==
  /\ pc = "idle"
  /\ \E p1 \in HavPoints, p2 \in HavPoints :
       /\ call' = [op |-> "_haversine_distance",
                   args |-> [lat1 |-> p1[1], lon1 |-> p1[2], lat2 |-> p2[1], lon2 |-> p2[2]]]
       /\ outcome' = Return(haversine_distance(p1[1], p1[2], p2[1], p2[2]))
  /\ pc' = "done"
  /\ frame' = None
  /\ trace' = <<>>
  /\ UNCHANGED << printed, pycountry_installed, llm_provider, nominatim_cache,
                  geodistance_cache, llm >>

HavNext ==
  \/ CallerContinues
  \/ HaversineDistance

HavSpec == Init /\ [][HavNext]_vars

\* ------------------------------------------------------------------ claims
GeocodeDone == pc = "done" /\ call.op = "geocode"
DistanceDone == pc = "done" /\ call.op = "calculate_distance"
NearbyDone == pc = "done" /\ call.op = "find_nearby_locations"

\* the finished call returned v / raised e
Returned(v) == outcome.kind = "return" /\ outcome.value = v
RaisedError(e) == outcome.kind = "raise" /\ outcome.value = e

\* the deterministic resolver returned a record whose accuracy is not "low"
DeterministicSuccess ==
  frame.pg_bound /\ NotNone(frame.pg_result) /\ Val(frame.pg_result).accuracy # "low"

LlmCalls == {"get_llm", "with_structured_output", "invoke"}

\* C1: in geocode, when the country normalizes to a code and the deterministic
\* resolver returns a record whose accuracy is not "low", the call is over with
\* exactly that record returned, the fallback resolver was not invoked and no
\* model client was constructed or called during the call, whatever use_llm is.
C1_ShortCircuit ==
  (call.op = "geocode" /\ Truthy(normalize_country_code(call.args.country))
     /\ DeterministicSuccess)
  => /\ pc = "done"
     /\ Returned(Val(frame.pg_result))
     /\ Len(frame.fallback_calls) = 0
     /\ \A i \in 1..Len(trace) : trace[i] \notin LlmCalls

C1_Witness ==
  /\ GeocodeDone
  /\ call.args.use_llm
  /\ DeterministicSuccess
  /\ Returned(Val(frame.pg_result))

\* C2: for a country that cannot be normalized, geocode with use_llm=False
\* returns the empty sentinel record and does not raise.
C2_EmptySentinelWhenNotNormalizable ==
  (GeocodeDone /\ IsNone(normalize_country_code(call.args.country))
     /\ ~call.args.use_llm)
  => Returned(EmptySentinel)

\* C3: when the fallback path is taken and the model invocation errors or
\* returns a value that is no GeoLocation (None included), geocode returns the
\* "[LLM Error]" sentinel record and does not raise.
C3_ModelFaultSentinel ==
  (GeocodeDone /\ frame.llm_response.kind \in {"raise", "none", "dict"})
  => /\ Returned(LlmErrorSentinel)
     /\ outcome.value.formatted_address = Some(s_LLM_Error)
     /\ outcome.value.accuracy = "low"

C3_Witness ==
  /\ GeocodeDone
  /\ frame.llm_response.kind = "none"
  /\ Len(frame.fallback_calls) = 1
  /\ Returned(LlmErrorSentinel)

\* C4: no call of geocode raises, whatever the arguments and whatever a
\* collaborator does; only a distance or radius call without a country code raises.
C4_GeocodeNeverRaises ==
  (pc = "done" /\ outcome.kind = "raise")
  => /\ call.op \in {"calculate_distance", "find_nearby_locations"}
     /\ ~Truthy(frame.country_code)

\* C5: when use_llm is true and the deterministic path did not succeed, geocode
\* invokes the fallback resolver exactly once with the caller's city, state,
\* postal code, business and un-normalized country, and returns the record the
\* fallback produced (a record, never None, never the deterministic record).
C5_FallbackRecordReturned ==
  (GeocodeDone /\ call.args.use_llm /\ ~DeterministicSuccess)
  => /\ Len(frame.fallback_calls) = 1
     /\ frame.fallback_calls[1] =
          [ city_name |-> call.args.city_name, state_name |-> call.args.state_name,
            zip_code |-> call.args.zip_code,
            business_name |-> call.args.business_name,
            country |-> call.args.country ]
     /\ outcome.kind = "return"
     /\ outcome.kind = frame.llm_ended.kind
     /\ outcome.value = frame.llm_ended.value
     /\ (NotNone(frame.pg_result) => outcome.value # Val(frame.pg_result))

\* C6: with use_llm false, a record produced by the deterministic resolver is
\* what geocode returns, even when its accuracy is "low"; the empty sentinel is
\* returned only when the deterministic resolver produced no record.
C6_DeterministicRecordKept ==
  /\ (GeocodeDone /\ ~call.args.use_llm /\ frame.pg_bound /\ NotNone(frame.pg_result))
     => Returned(Val(frame.pg_result))
  /\ (GeocodeDone /\ Returned(EmptySentinel))
     => (~call.args.use_llm /\ frame.pg_bound /\ IsNone(frame.pg_result))

C6_Witness ==
  /\ GeocodeDone
  /\ ~call.args.use_llm
  /\ NotNone(frame.pg_result)
  /\ Val(frame.pg_result).accuracy = "low"
  /\ Returned(Val(frame.pg_result))

\* no country code is passed and none is derivable: every argument is a plain
\* postal code, or a record whose country is empty
NoCountryDerivable(args) ==
  /\ IsNone(args.country_code)
  /\ args.origin.is_loc => Len(Val(args.origin.loc).country) = 0
  /\ args.destination.is_loc => Len(Val(args.destination.loc).country) = 0

\* C7: calculate_distance raises ValueError, before any dataset query or
\* handle creation, whenever no country code is passed and none is derivable
\* from either argument.
C7_DistanceWithoutCountryRaises ==
  (call.op = "calculate_distance" /\ NoCountryDerivable(call.args))
  => /\ pc = "done"
     /\ RaisedError("ValueError")
     /\ trace = <<>>

C7_Witness ==
  /\ DistanceDone
  /\ NoCountryDerivable(call.args)
  /\ call.args.origin.is_loc
  /\ RaisedError("ValueError")

\* the country code the operation works with names no country of the catalogue
UnknownCountryInUse ==
  /\ Truthy(frame.country_code)
  /\ IsNone(pycountry_get("alpha_2", Val(frame.country_code)))

\* C8 (as claimed): a distance or radius operation whose country code resolves
\* to no known country fails with an explicit error instead of returning a
\* sentinel value (-1.0 or an empty list).
C8_UnknownCountryRaises ==
  ((DistanceDone \/ NearbyDone) /\ UnknownCountryInUse) => outcome.kind = "raise"

BothNonZero(args) ==
  /\ args.origin.is_loc /\ args.destination.is_loc
  /\ Val(args.origin.loc).latitude # 0 /\ Val(args.origin.loc).longitude # 0
  /\ Val(args.destination.loc).latitude # 0 /\ Val(args.destination.loc).longitude # 0

\* C8 (amended): a distance or radius operation raises (ValueError) exactly when
\* no non-empty country code is passed or derived.  With a non-empty code that
\* names no known country it does not raise: calculate_distance returns the
\* haversine distance when both endpoints are records with non-zero coordinates
\* and -1.0 otherwise, find_nearby_locations returns an empty list.
C8_UnknownCountryDegrades ==
  /\ (DistanceDone \/ NearbyDone)
     => (outcome.kind = "raise" <=> ~Truthy(frame.country_code))
  /\ (DistanceDone /\ UnknownCountryInUse)
     => /\ outcome.kind = "return"
        /\ IF BothNonZero(call.args) THEN Val(outcome.value) >= 0
           ELSE outcome.value = Some(-1)
  /\ (NearbyDone /\ UnknownCountryInUse) => Returned(<<>>)

C8_Witness ==
  /\ DistanceDone
  /\ call.args.origin = LocArg(EmptySentinel)
  /\ IsNone(call.args.country_code)
  /\ UnknownCountryInUse
  /\ Returned(Some(-1))

\* C9: in calculate_distance with a country code available, the value of the
\* primary query is returned when the query succeeds; when it fails the
\* haversine distance is returned if and only if both endpoints are records
\* with non-zero coordinates, and -1.0 otherwise; -1.0 is returned in no other
\* case.
C9_DistanceFallback ==
  (DistanceDone /\ Truthy(frame.country_code))
  => /\ ~frame.primary.raised => Returned(frame.primary.value)
     /\ (frame.primary.raised /\ BothNonZero(call.args))
        => Returned(Some(haversine_distance(
               Val(call.args.origin.loc).latitude, Val(call.args.origin.loc).longitude,
               Val(call.args.destination.loc).latitude,
               Val(call.args.destination.loc).longitude)))
     /\ (frame.primary.raised /\ ~BothNonZero(call.args)) => Returned(Some(-1))
     /\ Returned(Some(-1)) => (frame.primary.raised /\ ~BothNonZero(call.args))
     /\ outcome.kind = "return"
     /\ (NotNone(outcome.value) /\ outcome.value # Some(-1)) => Val(outcome.value) >= 0

C9_Witness ==
  /\ DistanceDone
  /\ Truthy(frame.country_code)
  /\ frame.primary.raised
  /\ call.args.origin = LocArg(G_la)
  /\ call.args.destination = LocArg(G_ny)
  /\ Val(outcome.value) > 0

\* C10: the list find_nearby_locations returns is non-decreasing in
\* distance_km, no entry exceeds radius_km, and every entry is the entry of a
\* candidate postal code whose batched distance is defined and <= radius_km.
C10_NearbySortedWithinRadius ==
  (NearbyDone /\ outcome.kind = "return")
  => LET found == outcome.value
         postal_codes == Val(frame.postal_codes)
         radius_km == call.args.radius_km
     IN  /\ \A i \in 1..Len(found) : \A j \in i..Len(found) :
               found[i].distance_km <= found[j].distance_km
         /\ \A i \in 1..Len(found) : found[i].distance_km <= radius_km
         /\ \A i \in 1..Len(found) :
               \E k \in 1..Len(frame.distances) :
                  /\ NotNone(frame.distances[k])
                  /\ Val(frame.distances[k]) = found[i].distance_km
                  /\ Val(frame.distances[k]) <= radius_km
                  /\ postal_codes[k] = found[i].postal_code
         /\ Len(found) <= Len(frame.nearby_indices)

C10_Witness ==
  /\ NearbyDone
  /\ outcome.kind = "return"
  /\ Len(outcome.value) >= 2
  /\ outcome.value # frame.result
  /\ \E k \in 1..Len(frame.distances) : IsNone(frame.distances[k])
  /\ outcome.value[1].distance_km < outcome.value[2].distance_km

NearbyPrinted == pc = "printed" /\ call.op = "find_nearby_locations"

\* C11 (as claimed): the sequence find_nearby_locations returns is truncated to
\* the caller-supplied limit: it never contains more than limit entries.
C11_ResultTruncatedToLimit ==
  NearbyPrinted => Len(outcome.value) <= Val(printed).limit

\* C11 (amended): find_nearby_locations takes no limit and returns one entry
\* for every candidate within the radius; the nearby command prints
\* locations[:limit] of that sorted list: for a limit >= 0 the first
\* min(limit, n) entries, hence no more than limit and the nearest ones.
C11_PrintedTruncatedToLimit ==
  /\ (NearbyDone /\ outcome.kind = "return" /\ Len(outcome.value) > 0)
     => Len(outcome.value) = Len(frame.nearby_indices)
  /\ NearbyPrinted
     => LET limit == Val(printed).limit
            shown == Val(printed).locations
            found == outcome.value
        IN  /\ Len(shown) <= Len(found)
            /\ \A i \in 1..Len(shown) : shown[i] = found[i]
            /\ limit >= 0 => Len(shown) = (IF limit < Len(found) THEN limit ELSE Len(found))
            /\ limit < 0 => Len(shown) < Len(found) \/ Len(found) = 0
            /\ \A i \in 1..Len(shown) : \A j \in (Len(shown) + 1)..Len(found) :
                  shown[i].distance_km <= found[j].distance_km

C11_Witness ==
  /\ NearbyPrinted
  /\ Val(printed).limit = 2
  /\ Len(outcome.value) = 3
  /\ Len(Val(printed).locations) = 2
  /\ Val(printed).locations[2].distance_km < outcome.value[3].distance_km

\* C12: in find_nearby_locations with a country code available, an error while
\* obtaining a handle, in the batched distance call or in the enrichment step
\* (also part-way through building the entries) ends the call with an empty
\* list returned: never a partial list, never an exception.
C12_NearbyErrorGivesEmptyList ==
  (NearbyDone /\ Truthy(frame.country_code))
  => /\ outcome.kind = "return"
     /\ frame.failed # "none" => Returned(<<>>)
     /\ Len(frame.result) < Len(frame.nearby_codes) => Returned(<<>>)

C12_Witness ==
  /\ NearbyDone
  /\ Truthy(frame.country_code)
  /\ frame.failed = "entry"
  /\ Len(frame.result) > 0
  /\ Len(frame.result) < Len(frame.nearby_codes)
  /\ Returned(<<>>)

NormalizeDone == pc = "done" /\ call.op = "_normalize_country_code"

\* the catalogue country a string denotes as a 2-letter or a 3-letter code
KnownAlpha2(country) == pycountry_get("alpha_2", country)
KnownAlpha3(country) == pycountry_get("alpha_3", country)

\* C13: for an input of length 2, _normalize_country_code returns the
\* upper-cased code if it denotes a known country and None otherwise.
C13_TwoLetterKnownOrNull ==
  (NormalizeDone /\ Len(call.args.country) = 2)
  => outcome.value = (IF NotNone(KnownAlpha2(call.args.country))
                      THEN Some(Upper(call.args.country)) ELSE None)

\* C14: for an input of length 3, _normalize_country_code returns the ISO-2
\* code of the country with that ISO-3 code (from the catalogue, else from the
\* built-in table) and None when neither knows the code; what it returns is
\* never a string that is not a 2-letter code.
C14_ThreeLetterKnownOrNull ==
  (NormalizeDone /\ Len(call.args.country) = 3)
  => LET country == call.args.country
         builtin == DictGet(mapping, Upper(country), None)
     IN  /\ outcome.value =
              (IF pycountry_installed /\ NotNone(KnownAlpha3(country))
               THEN Some(Val(KnownAlpha3(country)).alpha_2)
               ELSE IF builtin # None THEN Some(builtin) ELSE None)
         /\ NotNone(outcome.value) => Len(Val(outcome.value)) = 2

\* C15: normalization is idempotent: normalizing a code that
\* _normalize_country_code returned gives that code again.
C15_NormalizeIdempotent ==
  (pc = "again" /\ call.op = "_normalize_country_code")
  => Some(Val(frame).again) = Some(outcome.value)

\* C16: for every known country the 2-letter code in any letter case, the
\* 3-letter code and the full name all normalize to the country's ISO-2 code.
C16_RepresentationsAgree ==
  NormalizeDone
  => \A c \in pycountry_countries :
        (\/ Lower(call.args.country) = Lower(c.alpha_2)
         \/ call.args.country = c.alpha_3
         \/ call.args.country = c.name)
        => outcome.value = Some(c.alpha_2)

PgDone == pc = "done" /\ call.op = "_geocode_with_pgeocode"

\* C17: _geocode_with_pgeocode called with a None or empty country code
\* returns None at once: no dataset handle is created and no dataset query is
\* issued, whatever postal code, city and state are passed.
C17_NoCountryNoLookup ==
  [][ (pc = "idle" /\ call'.op = "_geocode_with_pgeocode"
         /\ ~Truthy(call'.args.country_code))
      => /\ pc' = "done"
         /\ outcome' = Return(None)
         /\ trace' = <<>>
         /\ nominatim_cache' = nominatim_cache
         /\ geodistance_cache' = geodistance_cache ]_vars

C17_Witness ==
  /\ PgDone
  /\ call.args.country_code = Some(s_empty)
  /\ Len(call.args.zip_code) > 0
  /\ Len(call.args.city_name) > 0
  /\ Returned(None)
  /\ trace = <<>>

\* a record with a non-empty city and both coordinates non-zero
UsableRecord(location) ==
  /\ NotNone(location)
  /\ Len(Val(location).city) > 0
  /\ Val(location).latitude # 0
  /\ Val(location).longitude # 0

\* C18: the postal-code step returns the looked-up record if and only if it
\* has a non-empty city and latitude and longitude both non-zero; with any
\* other postal result the resolver goes on to the city step, or returns None
\* when no city was given.
C18_PostalReturnedIffUsable ==
  (call.op = "_geocode_with_pgeocode" /\ frame.postal.kind \in {"hit", "miss"})
  => /\ frame.postal.kind = "hit" <=> UsableRecord(frame.postal.location)
     /\ (PgDone /\ frame.postal.kind = "hit") => Returned(frame.postal.location)
     /\ (PgDone /\ frame.postal.kind = "miss")
        => IF Len(call.args.city_name) > 0 THEN frame.city.kind # "skipped"
           ELSE Returned(None)

\* what _geocode_with_pgeocode returns after a postal-code step without a
\* usable record: the outcome of the city step when a city was given, else None
ResultAfterPostalMiss ==
  IF Len(call.args.city_name) > 0
  THEN frame.city.kind # "skipped" /\ Returned(frame.city.location)
  ELSE Returned(None)

\* C19: a dataset fault is treated like a dataset miss: when the postal lookup
\* raises, _geocode_with_pgeocode ends as it does when that lookup returns no
\* usable record (the city step runs if a city was given and decides the
\* result); a fault of the city lookup gives None as an empty answer does.
C19_FaultSameAsMiss ==
  PgDone
  => /\ frame.postal.kind \in {"fault", "miss"} => ResultAfterPostalMiss
     /\ frame.city.kind \in {"fault", "empty"} => Returned(None)

\* C20: _geocode_with_pgeocode never raises: an error while creating the
\* handle, querying by postal code or by place name or filtering by state ends
\* the call with None, and a record whose conversion fails yields no result.
C20_PgeocodeNeverRaises ==
  (pc = "done" /\ call.op = "_geocode_with_pgeocode")
  => /\ outcome.kind = "return"
     /\ (frame.postal.kind = "fault" \/ frame.city.kind = "fault") => Returned(None)
     /\ ~pycountry_installed => Returned(None)

C20_Witness ==
  /\ PgDone
  /\ frame.postal.kind = "miss"
  /\ frame.city.kind = "fault"
  /\ trace[Len(trace)] = "Nominatim.query_location"
  /\ Len(call.args.state_name) > 0
  /\ Returned(None)

ConvDone == pc = "done" /\ call.op = "_pgeocode_to_geolocation"

\* C21: every record _pgeocode_to_geolocation produces has accuracy "high"
\* exactly when the row has a postal code and both coordinates, "medium"
\* exactly when it has one of the two but not both, and "low" otherwise.
C21_AccuracyGrading ==
  (ConvDone /\ NotNone(outcome.value))
  => LET row == call.args.result
         has_postal == Truthy(row.postal_code)
         has_coords == NotNone(row.latitude) /\ NotNone(row.longitude)
         accuracy == Val(outcome.value).accuracy
     IN  /\ accuracy \in {"high", "medium", "low"}
         /\ accuracy = "high" <=> (has_postal /\ has_coords)
         /\ accuracy = "medium" <=> (has_postal # has_coords)
         /\ accuracy = "low" <=> (~has_postal /\ ~has_coords)

C21_Witness ==
  /\ ConvDone
  /\ NotNone(outcome.value)
  /\ IsNone(call.args.result.postal_code)
  /\ NotNone(call.args.result.latitude)
  /\ NotNone(call.args.result.longitude)
  /\ Val(outcome.value).accuracy = "medium"

\* the dataset row whose conversion the deterministic resolver returned
ReturnedRow == IF frame.postal.kind = "hit" THEN frame.postal.row ELSE frame.city.row

\* a row with complete data
CompleteRow(row) ==
  /\ ~row.empty
  /\ Truthy(row.country_code) /\ Truthy(row.postal_code) /\ Truthy(row.place_name)
  /\ NotNone(row.latitude) /\ NotNone(row.longitude)

IsSubstring(hay, needle) ==
  \E i \in 0..(Len(hay) - Len(needle)) : SubSeq(hay, i + 1, i + Len(needle)) = needle

\* the candidates whose state field contains state_name, letter case ignored
StateMatches(found, state_name) ==
  LET Match(cand) == NotNone(cand.state_name)
                     /\ IsSubstring(Lower(Val(cand.state_name)), Lower(state_name))
  IN  SelectSeq(found, Match)

\* C23: in the city step, when a state name is given the candidates are
\* restricted to those whose state field contains it (case-insensitive
\* substring) if at least one does, and left unfiltered if none does; the
\* record returned is the conversion of the first candidate of that set.
C23_StateFilterBySubstring ==
  (call.op = "_geocode_with_pgeocode" /\ frame.city.kind \in {"row", "empty"})
  => LET found == frame.city.found
         state_name == call.args.state_name
         matching == IF Len(state_name) > 0 THEN StateMatches(found, state_name)
                     ELSE <<>>
         candidates == IF Len(matching) > 0 THEN matching ELSE found
     IN  IF Len(candidates) = 0
         THEN frame.city.kind = "empty" /\ (PgDone => Returned(None))
         ELSE /\ frame.city.row = candidates[1]
              /\ PgDone => Returned(pgeocode_to_geolocation(candidates[1]))

\* C24: a record returned by a successful fallback call has the model's
\* address followed by " [LLM]" as formatted_address, or exactly "[LLM]" when
\* the model's address was empty or None, and every other field as the model
\* gave it; a record returned via the deterministic path carries no marker.
C24_LlmMarker ==
  /\ (GeocodeDone /\ frame.llm_response.kind = "record")
     => LET m == Val(frame.llm_response.value)
            g == outcome.value
        IN  /\ outcome.kind = "return"
            /\ g.formatted_address =
                 Some(IF NotNone(m.formatted_address) /\ Len(Val(m.formatted_address)) > 0
                      THEN Val(m.formatted_address) \o <<" ", "[", "L", "L", "M", "]">>
                      ELSE <<"[", "L", "L", "M", "]">>)
            /\ [g EXCEPT !.formatted_address = m.formatted_address] = m
  /\ (GeocodeDone /\ outcome.kind = "return" /\ Len(frame.fallback_calls) = 0)
     => (NotNone(outcome.value.formatted_address)
         => ~IsSubstring(Val(outcome.value.formatted_address), <<"[", "L", "L", "M">>))

C24_Witness ==
  /\ GeocodeDone
  /\ frame.llm_response.kind = "record"
  /\ IsNone(Val(frame.llm_response.value).formatted_address)
  /\ outcome.kind = "return"
  /\ outcome.value.formatted_address = Some(<<"[", "L", "L", "M", "]">>)
  /\ outcome.value.city = s_Mankato

\* how often a collaborator call occurs in a trace
Count(t, what) == Cardinality({i \in 1..Len(t) : t[i] = what})

\* every entry of the cache is still there, with the same handle
Kept(before, after) ==
  \A k \in DOMAIN before : k \in DOMAIN after /\ after[k] = before[k]

\* C25: in every step of every call each handle cache keeps all its entries
\* with the same handle object, gains at most the entry of the country code in
\* use, and a handle constructor runs only when the cache has no entry for that
\* code: one handle per key, built on first use, reused afterwards.
C25_HandleCachesStable ==
  [][ LET key == IF pc # "idle" /\ NotNone(frame.country_code)
                 THEN {Val(frame.country_code)} ELSE {}
      IN  /\ Kept(nominatim_cache, nominatim_cache')
          /\ Kept(geodistance_cache, geodistance_cache')
          /\ DOMAIN nominatim_cache' \subseteq DOMAIN nominatim_cache \cup key
          /\ DOMAIN geodistance_cache' \subseteq DOMAIN geodistance_cache \cup key
          /\ (pc # "idle" /\ pc' # "idle"
                /\ Count(trace', "Nominatim") > Count(trace, "Nominatim"))
             => (key # {} /\ key \cap DOMAIN nominatim_cache = {})
          /\ (pc # "idle" /\ pc' # "idle"
                /\ Count(trace', "GeoDistance") > Count(trace, "GeoDistance"))
             => (key # {} /\ key \cap DOMAIN geodistance_cache = {})
    ]_vars

C25_Witness ==
  /\ GeocodeDone
  /\ trace = <<"Nominatim.query_postal_code", "Nominatim.query_location">>
  /\ s_US \in DOMAIN nominatim_cache
  /\ nominatim_cache[s_US].serial = 1
  /\ s_US \in DOMAIN geodistance_cache

\* the collaborator calls an operation issues
CollaboratorQueries ==
  { "Nominatim.query_postal_code", "Nominatim.query_location",
    "GeoDistance.query_postal_code", "get_llm", "with_structured_output", "invoke" }

\* C26: no operation retries a collaborator call: within one geocode,
\* calculate_distance or find_nearby_locations call the postal-code lookup, the
\* place-name lookup, the distance query and the model invocation are each
\* issued at most once, whatever they return or raise.
C26_NoRetry ==
  /\ \A q \in CollaboratorQueries : Count(trace, q) <= 1
  /\ (pc = "done" /\ call.op = "calculate_distance" /\ Truthy(frame.country_code)
        /\ frame.primary.raised)
     => (Len(trace) \in {1, 2}
         /\ trace[Len(trace)] \in {"GeoDistance", "GeoDistance.query_postal_code"})

C26_Witness ==
  /\ GeocodeDone
  /\ frame.postal.kind = "fault"
  /\ frame.llm_response.kind = "raise"
  /\ trace = << "Nominatim", "Nominatim.query_postal_code", "get_llm",
                "with_structured_output", "invoke" >>

\* what geocode does with its arguments and with the responses the
\* collaborators gave during the call, as recorded in the call's frame; reads
\* neither the handle caches nor the model client
GeocodeResultOf(args, fr) ==
  LET country_code == normalize_country_code(args.country)
      pg_result == IF fr.postal.kind = "hit" THEN pgeocode_to_geolocation(fr.postal.row)
                   ELSE IF fr.city.kind = "row" THEN pgeocode_to_geolocation(fr.city.row)
                   ELSE None
      d == geocode_decide(args, Truthy(country_code), pg_result)
  IN  IF d.pc = "done" THEN d.outcome
      ELSE IF fr.llm_response.kind = "not_invoked" THEN Raise(fr.llm_ended.value)
      ELSE llm_outcome(fr.llm_response)

\* C27: the result of geocode is determined by its arguments and by the
\* collaborators' responses during the call; what earlier calls left in the
\* handle caches and in the model client has no influence on it.
C27_GeocodeHistoryIndependent ==
  GeocodeDone
  => LET expected == GeocodeResultOf(call.args, frame)
     IN  /\ outcome.kind = expected.kind
         /\ outcome.kind = expected.kind => outcome.value = expected.value
         /\ frame.llm_response.kind = "not_invoked"
            => (outcome.kind = "raise"
                => outcome.value \in {"UnboundLocalError", "ValueError", "ClientError",
                                      "StructuredOutputError"})

C27_Witness ==
  /\ GeocodeDone
  /\ NotNone(llm)
  /\ DOMAIN geodistance_cache # {}
  /\ s_US \in DOMAIN nominatim_cache
  /\ trace = <<"Nominatim.query_postal_code", "with_structured_output", "invoke">>
  /\ frame.llm_response.kind = "record"
  /\ outcome.kind = "return"

HavDone == pc = "done" /\ call.op = "_haversine_distance"

\* C28: _haversine_distance between New York (40.7128, -74.0060) and Los
\* Angeles (34.0522, -118.2437) lies strictly between 3900 and 4000 km; being
\* 2 R asin(sqrt(a)) with R = 6371 km, a distance is never negative, never more
\* than half the circumference, and zero from a point to itself.
C28_HaversineNewYorkLosAngeles ==
  HavDone
  => LET a == call.args
         d == outcome.value
     IN  /\ (<<a.lat1, a.lon1>> = <<407128, -740060>> /\ <<a.lat2, a.lon2>> = <<340522, -1182437>>)
            => (3900 < d /\ d < 4000)
         /\ 0 <= d /\ d <= 20016
         /\ (a.lat1 = a.lat2 /\ a.lon1 = a.lon2) => d = 0

C28_Witness ==
  /\ HavDone
  /\ <<call.args.lat1, call.args.lon1>> = <<407128, -740060>>
  /\ <<call.args.lat2, call.args.lon2>> = <<340522, -1182437>>
  /\ outcome.value > 3900
  /\ outcome.value < 4000

\* C29: in calculate_distance called without a country code, the country is
\* the origin record's whenever the origin is a record, and the destination
\* record's only when the origin is not a record; an origin record with an
\* empty country therefore raises ValueError, before any query, even when the
\* destination is a record with a valid country.
C29_OriginRecordDecidesCountry ==
  (call.op = "calculate_distance" /\ IsNone(call.args.country_code))
  => LET origin == call.args.origin
         destination == call.args.destination
     IN  /\ origin.is_loc
            => frame.country_code = Some(iso3_to_iso2_country(Val(origin.loc).country))
         /\ (~origin.is_loc /\ destination.is_loc)
            => frame.country_code = Some(iso3_to_iso2_country(Val(destination.loc).country))
         /\ (origin.is_loc /\ Len(Val(origin.loc).country) = 0)
            => (pc = "done" /\ RaisedError("ValueError") /\ trace = <<>>)

C29_Witness ==
  /\ DistanceDone
  /\ IsNone(call.args.country_code)
  /\ call.args.origin = LocArg(G_no_country)
  /\ call.args.destination = LocArg(G_la)
  /\ Len(G_la.country) > 0
  /\ RaisedError("ValueError")
  /\ trace = <<>>

====
